---- MODULE Spec2Model ----
(***************************************************************************)
(* Model of app.py, the "Effort Plotter" Streamlit dashboard.              *)
(*                                                                         *)
(* The program is a script that Streamlit runs from top to bottom on every *)
(* user interaction.  Its state between two runs is the widget state kept  *)
(* by Streamlit (one value per widget key), the st.cache_data entry of     *)
(* load_data and the file round_players.csv.  One script run is one atomic *)
(* step of the model.                                                      *)
(***************************************************************************)
EXTENDS Integers, Sequences, FiniteSets, TLC

(***************************************************************************)
(* Bounds of the model                                                     *)
(***************************************************************************)
SmallSquad == 3        \* players in the small input files
MaxPlayers == 12       \* players in the large input files
MaxInteractions == 2   \* user interactions and file events per session

(***************************************************************************)
(* Values                                                                  *)
(***************************************************************************)
NaN == "NaN"           \* the missing value pandas puts in an object column
NoCache == <<>>        \* st.cache_data holds no entry for load_data

RECURSIVE SumOver(_, _)
SumOver(S, f) ==
    IF S = {} THEN 0
    ELSE LET x == CHOOSE y \in S : TRUE IN f[x] + SumOver(S \ {x}, f)

Range(s) == {s[k] : k \in 1..Len(s)}

\* Code points of the characters that occur in player names and search terms.
CodePoint == [c \in {"(", ".", "A", "B", "a", "b"} |->
                CASE c = "(" -> 40 [] c = "." -> 46 [] c = "A" -> 65
                  [] c = "B" -> 66 [] c = "a" -> 97 [] c = "b" -> 98]

\* str.lower / re.IGNORECASE on one character.
Fold(c) == CASE c = "A" -> "a" [] c = "B" -> "b" [] OTHER -> c

\* Python's < on two strings held as sequences of characters.
RECURSIVE NameLess(_, _)
NameLess(a, b) ==
    IF b = <<>> THEN FALSE
    ELSE IF a = <<>> THEN TRUE
    ELSE IF CodePoint[Head(a)] # CodePoint[Head(b)]
         THEN CodePoint[Head(a)] < CodePoint[Head(b)]
         ELSE NameLess(Tail(a), Tail(b))

(***************************************************************************)
(* load_data: the team name mapping                                        *)
(***************************************************************************)
team_name_mapping ==
    (500011 :> "Brisbane Broncos") @@ (500013 :> "Canberra Raiders") @@
    (500010 :> "Canterbury-Bankstown Bulldogs") @@
    (500028 :> "Cronulla-Sutherland Sharks") @@
    (500004 :> "Gold Coast Titans") @@
    (500002 :> "Manly-Warringah Sea Eagles") @@
    (500021 :> "Melbourne Storm") @@ (500003 :> "Newcastle Knights") @@
    (500032 :> "New Zealand Warriors") @@
    (500012 :> "North Queensland Cowboys") @@
    (500031 :> "Parramatta Eels") @@ (500014 :> "Penrith Panthers") @@
    (500005 :> "South Sydney Rabbitohs") @@
    (500022 :> "St George Illawarra Dragons") @@
    (500001 :> "Sydney Roosters") @@ (500023 :> "Wests Tigers") @@
    (500723 :> "The Dolphins")

\* The team names in Python's string order (what sorted() compares by).
TeamOrder ==
    <<"Brisbane Broncos", "Canberra Raiders", "Canterbury-Bankstown Bulldogs",
      "Cronulla-Sutherland Sharks", "Gold Coast Titans",
      "Manly-Warringah Sea Eagles", "Melbourne Storm", "New Zealand Warriors",
      "Newcastle Knights", "North Queensland Cowboys", "Parramatta Eels",
      "Penrith Panthers", "South Sydney Rabbitohs",
      "St George Illawarra Dragons", "Sydney Roosters", "The Dolphins",
      "Wests Tigers">>

\* The position names of the input files, in Python's string order.
PositionOrder == <<"Fullback", "Hooker", "Prop">>

IndexOf(seq, x) == CHOOSE k \in 1..Len(seq) : seq[k] = x

TeamLess(a, b) == IndexOf(TeamOrder, a) < IndexOf(TeamOrder, b)
PositionLess(a, b) == IndexOf(PositionOrder, a) < IndexOf(PositionOrder, b)

(***************************************************************************)
(* The input files: round_players.csv with one row per player and round.   *)
(* Season(n, ids) is a season of n players whose team ids cycle through    *)
(* ids.  Player 2 never gets on the field (0 minutes), player 3 plays 40   *)
(* minutes a game, every third player changes position between rounds, and *)
(* odd players play two rounds.                                            *)
(***************************************************************************)
NameChars == <<"a", "A", "b", "B">>

PlayerNameOf(i) ==
    <<NameChars[(((i - 1) \div 4) % 4) + 1], NameChars[((i - 1) % 4) + 1]>>

GamesOf(i) == 1 + (i % 2)

CsvRow(i, r, ids) ==
    [playerName    |-> PlayerNameOf(i),
     teamId        |-> ids[((i - 1) % Len(ids)) + 1],
     positionName  |-> PositionOrder[((i + (IF i % 3 = 0 THEN r ELSE 1)) % 3) + 1],
     roundNumber   |-> r,
     mins          |-> IF i = 2 THEN 0 ELSE IF i = 3 THEN 40
                       ELSE 80 + 40 * ((i + r) % 2),
     runs          |-> (3 * i + r) % 5,
     kickPressures |-> i % 2,
     kicksDefused  |-> 0,
     supports      |-> (i + r) % 3,
     decoys        |-> r - 1,
     tackles       |-> ((7 * i) % 4) + 1]

RECURSIVE Season(_, _)
Season(n, ids) ==
    IF n = 0 THEN <<>>
    ELSE Season(n - 1, ids) \o [r \in 1..GamesOf(n) |-> CsvRow(n, r, ids)]

\* All teams mapped; some team ids unknown to the mapping; none known.
TeamIdCycles == {<<500001, 500011>>, <<999999, 500001>>, <<999999>>}

InputFiles ==
    {Season(SmallSquad, ids) : ids \in TeamIdCycles}
        \cup {Season(MaxPlayers, <<500001, 500011>>)}


(***************************************************************************)
(* load_data (lines 16-53)                                                 *)
(***************************************************************************)
\* Series.map(dict): an id that is no key of the dict maps to NaN.
MapTeamId(id) ==
    IF id \in DOMAIN team_name_mapping THEN team_name_mapping[id] ELSE NaN

AddTeamName(row) ==
    [c \in DOMAIN row \cup {"teamName"} |->
        IF c = "teamName" THEN MapTeamId(row.teamId) ELSE row[c]]

GroupKey(row) ==
    [playerName |-> row.playerName, teamName |-> row.teamName,
     positionName |-> row.positionName]

\* The order groupby(sort=True) gives its groups: by the key tuple.
KeyLess(a, b) ==
    IF a.playerName # b.playerName THEN NameLess(a.playerName, b.playerName)
    ELSE IF a.teamName # b.teamName THEN TeamLess(a.teamName, b.teamName)
    ELSE PositionLess(a.positionName, b.positionName)

SortKeys(S) ==
    [k \in 1..Cardinality(S) |->
        CHOOSE x \in S : Cardinality({y \in S : KeyLess(y, x)}) = k - 1]

\* The groups of groupby([...]) with its default dropna=True: a row whose
\* key holds NaN belongs to no group.
GroupKeys(rows) ==
    SortKeys({GroupKey(rows[k]) : k \in {j \in 1..Len(rows) : rows[j].teamName # NaN}})

GroupRows(rows, key) == {k \in 1..Len(rows) : GroupKey(rows[k]) = key}

ColumnSum(rows, K, col) == SumOver(K, [k \in K |-> rows[k][col]])

\* agg({'mins': 'sum', 'roundNumber': 'count'}) over the rows K of one group,
\* with the columns renamed as at line 51.
TotalsRow(rows, key, K) ==
    [playerName   |-> key.playerName,
     teamName     |-> key.teamName,
     positionName |-> key.positionName,
     totalMins    |-> ColumnSum(rows, K, "mins"),
     gamesPlayed  |-> Cardinality(K)]

TotalsOf(rows, keys) ==
    [g \in 1..Len(keys) |-> TotalsRow(rows, keys[g], GroupRows(rows, keys[g]))]

PlayerTotals(rows) == TotalsOf(rows, GroupKeys(rows))

WithPlayerTotals(frame) == [df |-> frame, player_totals |-> PlayerTotals(frame)]

\* The body of load_data: what one parse of the file returns.
load_data(csv) == WithPlayerTotals([k \in 1..Len(csv) |-> AddTeamName(csv[k])])

\* Faulty variant: the entry is keyed by the content of the file.
CachedLoad_ByContent(entry, csv) ==
    IF entry = NoCache \/ entry.df # load_data(csv).df
    THEN load_data(csv) ELSE entry

\* @st.cache_data on a function without arguments: the entry is keyed by the
\* function alone, so a stored entry is returned whatever the file holds now.
CachedLoad(entry, csv) == IF entry = NoCache THEN load_data(csv) ELSE entry


(***************************************************************************)
(* Streamlit widgets (the calls at lines 65, 79, 99, 113, 305 and 321)     *)
(***************************************************************************)
available_stats ==
    <<"runs", "kickPressures", "kicksDefused", "supports", "decoys", "tackles">>

\* The widget state of a fresh session: every multiselect at its default.
DefaultSession ==
    [positions_multiselect |-> {},
     teams_multiselect     |-> {},
     players_multiselect   |-> {},
     stats_multiselect     |-> Range(available_stats),
     search_round_data     |-> <<>>,
     search_season_data    |-> <<>>]

\* st.multiselect(options=..., default=..., key=...): the value kept under the
\* key, as long as the options still offer it.  When the options changed and
\* no longer hold the kept value, the widget either starts over from its
\* default or keeps the part the options still offer, depending on the
\* Streamlit release (keepValid); it never returns a value outside options.
multiselect(options, default, kept, keepValid) ==
    IF kept \subseteq options THEN kept
    ELSE IF keepValid THEN kept \cap options ELSE default

\* sorted(series.unique()) on a column of str: Python's string order.
StrLess(kind, a, b) ==
    CASE kind = "playerName"   -> NameLess(a, b)
      [] kind = "teamName"     -> TeamLess(a, b)
      [] kind = "positionName" -> PositionLess(a, b)

\* The items of S in order: the k-th is the one with k - 1 items below it.
sorted(S, kind) ==
    [k \in 1..Cardinality(S) |->
        CHOOSE x \in S : Cardinality({y \in S : StrLess(kind, y, x)}) = k - 1]

unique(rows, col) == {rows[k][col] : k \in 1..Len(rows)}

\* sorted() compares its items with <, and Python has no < between the float
\* NaN and a str: a list that holds both makes sorted() raise TypeError.  A
\* list of NaN alone has nothing to compare.
SortableTeams(S) == ~(NaN \in S /\ S # {NaN})

sorted_teams(S) == IF S = {NaN} THEN <<NaN>> ELSE sorted(S, "teamName")

(***************************************************************************)
(* The filters (lines 90-108)                                              *)
(***************************************************************************)
\* Faulty variant: | in place of &.
FilterPositionTeam_Or(rows, positions, teams) ==
    SelectSeq(rows, LAMBDA r : r.positionName \in positions \/ r.teamName \in teams)

\* Faulty variant: the position mask is left out.
FilterPositionTeam_TeamOnly(rows, positions, teams) ==
    SelectSeq(rows, LAMBDA r : r.teamName \in teams)

\* df[df.positionName.isin(...) & df.teamName.isin(...)]; isin matches NaN
\* with NaN.
FilterPositionTeam(rows, positions, teams) ==
    SelectSeq(rows, LAMBDA r : r.positionName \in positions /\ r.teamName \in teams)

\* if selected_players: filtered_df = filtered_df[playerName.isin(...)]
FilterPlayers(rows, players) ==
    IF players # {} THEN SelectSeq(rows, LAMBDA r : r.playerName \in players)
    ELSE rows

\* Faulty variant: the check for an empty selection is gone.
NoStats_Never(stats) == FALSE

\* if not selected_stats (line 121)
NoStats(stats) == stats = {}

(***************************************************************************)
(* The metric composer (lines 124-136)                                     *)
(***************************************************************************)
\* filtered_df[selected_stats].sum(axis=1)
RowEfforts(row, stats) == SumOver(stats, [c \in stats |-> row[c]])

AddEfforts(rows, stats) ==
    [k \in 1..Len(rows) |->
        [c \in DOMAIN rows[k] \cup {"efforts"} |->
            IF c = "efforts" THEN RowEfforts(rows[k], stats) ELSE rows[k][c]]]

\* Series / Series on numbers: a float; x/0 is inf for x > 0 and NaN for 0/0,
\* and raises nothing.
Divide(x, y) ==
    IF y # 0 THEN [kind |-> "num", num |-> x, den |-> y]
    ELSE IF x # 0 THEN [kind |-> "inf", num |-> x, den |-> y]
    ELSE [kind |-> "nan", num |-> x, den |-> y]

\* One row of player_season_stats, from the sums and the count of a group.
SeasonRow(key, mins, efforts, games) ==
    [playerName      |-> key.playerName,
     teamName        |-> key.teamName,
     positionName    |-> key.positionName,
     totalMins       |-> mins,
     efforts         |-> efforts,
     gamesPlayed     |-> games,
     efforts_per_min |-> Divide(efforts, mins)]

\* agg({'mins': 'sum', 'efforts': 'sum', 'roundNumber': 'count'}) over the
\* rows K of one group.
SeasonRowOf(rows, key, K) ==
    SeasonRow(key, ColumnSum(rows, K, "mins"), ColumnSum(rows, K, "efforts"),
              Cardinality(K))

SeasonOf(rows, keys) ==
    [g \in 1..Len(keys) |-> SeasonRowOf(rows, keys[g], GroupRows(rows, keys[g]))]

PlayerSeasonStats(rows) == SeasonOf(rows, GroupKeys(rows))


(***************************************************************************)
(* Ranking views (lines 235-278)                                           *)
(***************************************************************************)
TopN == 10
min_mins == 80

SortKey(row, column) ==
    IF column = "efforts" THEN Divide(row.efforts, 1) ELSE row[column]

\* a sorts strictly before b under sort_values(ascending=False), which puts
\* NaN last (na_position='last').
Before(a, b) ==
    IF a.kind = "nan" THEN FALSE
    ELSE IF b.kind = "nan" THEN TRUE
    ELSE IF a.kind = "inf" THEN b.kind # "inf"
    ELSE IF b.kind = "inf" THEN FALSE
    ELSE a.num * b.den > b.num * a.den

\* DataFrame.sort_values(column, ascending=False) with the default
\* kind='quicksort', which is not stable: rows of equal value come out in
\* an order the caller cannot rely on.  The model lets the order among equal
\* rows be the original one (stable) or the reverse of it.
InsertAt(rows, p, row) ==
    SubSeq(rows, 1, p) \o <<row>> \o SubSeq(rows, p + 1, Len(rows))

\* Where row goes into the sorted rows: behind every row that sorts before
\* it, and behind (stable) or ahead of (not stable) the rows of equal value.
Place(sortedRows, row, column, stable) ==
    Cardinality({k \in 1..Len(sortedRows) :
        IF stable THEN ~Before(SortKey(row, column), SortKey(sortedRows[k], column))
        ELSE Before(SortKey(sortedRows[k], column), SortKey(row, column))})

Insert(sortedRows, row, column, stable) ==
    InsertAt(sortedRows, Place(sortedRows, row, column, stable), row)

RECURSIVE sort_values(_, _, _)
sort_values(rows, column, stable) ==
    IF Len(rows) = 0 THEN <<>>
    ELSE Insert(sort_values(SubSeq(rows, 1, Len(rows) - 1), column, stable),
                rows[Len(rows)], column, stable)

\* Faulty variant: the leaderboard is not cut.
head_NoLimit(rows, n) == rows

head(rows, n) == SubSeq(rows, 1, IF Len(rows) < n THEN Len(rows) ELSE n)

\* reset_index(drop=True): the rows are labelled 0, 1, 2, ...
reset_index(rows) == [k \in 0..(Len(rows) - 1) |-> rows[k + 1]]

\* frame.index = frame.index + 1
index_plus_1(frame) == [k \in {j + 1 : j \in DOMAIN frame} |-> frame[k - 1]]

top_players_of(stats, stable) ==
    index_plus_1(reset_index(head(sort_values(stats, "efforts", stable), TopN)))

\* Faulty variant: no qualifying threshold.
Qualified_All(stats) == stats

Qualified(stats) == SelectSeq(stats, LAMBDA r : r.totalMins >= min_mins)

efficient_players_of(stats, stable) ==
    index_plus_1(reset_index(
        head(sort_values(Qualified(stats), "efforts_per_min", stable), TopN)))

(***************************************************************************)
(* Search (lines 305-327)                                                  *)
(***************************************************************************)
\* Series.str.contains(pat, case=False) takes pat as a regular expression
\* (regex=True is the default).  Over the characters of the model: "." stands
\* for any character, "(" opens a group, a letter matches itself in either
\* case.
re_compiles(pat) == "(" \notin Range(pat)   \* a group that is never closed

CharMatches(p, c) == p = "." \/ Fold(p) = Fold(c)

re_search(pat, name) ==
    \E off \in 0..(Len(name) - Len(pat)) :
        \A j \in 1..Len(pat) : CharMatches(pat[j], name[off + j])

str_contains(rows, pat) ==
    SelectSeq(rows, LAMBDA r : re_search(pat, r.playerName))

\* if search_term: frame[frame.playerName.str.contains(...)] else: frame
SearchRows(rows, term) == IF term # <<>> THEN str_contains(rows, term) ELSE rows

\* What the user can type into a search box.
SearchTerms == {<<"a", "B">>, <<".">>, <<"(">>}


(***************************************************************************)
(* One run of the script (lines 56-333)                                    *)
(***************************************************************************)
SidebarWidgets ==
    {"positions_multiselect", "teams_multiselect", "players_multiselect",
     "stats_multiselect"}

Charts == {"fig1", "fig2", "fig3", "top_players_table", "fig_top",
           "efficient_players_table", "fig_eff"}

\* The environment of a run before its first statement: nothing computed,
\* nothing on the page, widget state ss.
NothingYet(ss) ==
    [cache |-> NoCache, df |-> <<>>, player_totals |-> <<>>,
     all_positions |-> <<>>, selected_positions |-> {},
     all_teams |-> <<>>, selected_teams |-> {},
     all_players |-> <<>>, selected_players |-> {},
     selected_stats |-> {}, filtered_df |-> <<>>,
     player_season_stats |-> <<>>, top_players |-> <<>>,
     efficient_players |-> <<>>, filtered_display_df |-> <<>>,
     filtered_season_df |-> <<>>,
     rendered |-> {}, exception |-> "none", session |-> ss]

\* Each statement below takes the environment R the statements before it
\* left and gives the environment it leaves.  An uncaught exception ends the
\* run where it is raised: what was rendered before it stays on the page and
\* no later statement runs.
Raised(R) == R.exception # "none"

\* Line 57: df, player_totals = load_data()
Load(R, loaded) ==
    [R EXCEPT !.cache = loaded, !.df = loaded.df,
              !.player_totals = loaded.player_totals]

\* Line 63
PositionOptions(R) ==
    [R EXCEPT !.all_positions =
                sorted(unique(R.df, "positionName"), "positionName")]

\* Lines 65-74
PositionsReturned(R, w) ==
    [R EXCEPT !.selected_positions = IF w = {} THEN Range(R.all_positions) ELSE w,
              !.session.positions_multiselect = w,
              !.rendered = @ \cup {"positions_multiselect"}]

PositionWidget(R, keepValid) ==
    PositionsReturned(R, multiselect(Range(R.all_positions), {},
                                     R.session.positions_multiselect, keepValid))

\* Line 77
TeamOptions(R) ==
    IF ~SortableTeams(unique(R.df, "teamName"))
    THEN [R EXCEPT !.exception = "TypeError"]
    ELSE [R EXCEPT !.all_teams = sorted_teams(unique(R.df, "teamName"))]

\* Lines 79-88
TeamsReturned(R, w) ==
    [R EXCEPT !.selected_teams = IF w = {} THEN Range(R.all_teams) ELSE w,
              !.session.teams_multiselect = w,
              !.rendered = @ \cup {"teams_multiselect"}]

TeamWidget(R, keepValid) ==
    IF Raised(R) THEN R
    ELSE TeamsReturned(R, multiselect(Range(R.all_teams), {},
                                      R.session.teams_multiselect, keepValid))

\* Lines 90-94
PositionTeamFilter(R) ==
    IF Raised(R) THEN R
    ELSE [R EXCEPT !.filtered_df =
            FilterPositionTeam(R.df, R.selected_positions, R.selected_teams)]

\* Line 97
PlayerOptions(R) ==
    IF Raised(R) THEN R
    ELSE [R EXCEPT !.all_players =
            sorted(unique(R.filtered_df, "playerName"), "playerName")]

\* Lines 99-108
PlayersReturned(R, w) ==
    [R EXCEPT !.selected_players = w,
              !.filtered_df = FilterPlayers(R.filtered_df, w),
              !.session.players_multiselect = w,
              !.rendered = @ \cup {"players_multiselect"}]

PlayerWidget(R, keepValid) ==
    IF Raised(R) THEN R
    ELSE PlayersReturned(R, multiselect(Range(R.all_players), {},
                                        R.session.players_multiselect, keepValid))

\* Lines 110-118
StatsReturned(R, w) ==
    [R EXCEPT !.selected_stats = w,
              !.session.stats_multiselect = w,
              !.rendered = @ \cup {"stats_multiselect"}]

StatsWidget(R, keepValid) ==
    IF Raised(R) THEN R
    ELSE StatsReturned(R, multiselect(Range(available_stats), Range(available_stats),
                                      R.session.stats_multiselect, keepValid))

\* Lines 60-118: with st.sidebar
Sidebar(R, keepValid) ==
    StatsWidget(
        PlayerWidget(
            PlayerOptions(
                PositionTeamFilter(
                    TeamWidget(
                        TeamOptions(
                            PositionWidget(PositionOptions(R), keepValid)),
                        keepValid))),
            keepValid),
        keepValid)

\* Line 122: st.warning(...).  The search boxes are not part of such a run,
\* and Streamlit drops the state of a widget that a finished run did not call.
Warning(R) ==
    [R EXCEPT !.rendered = @ \cup {"warning"},
              !.session.search_round_data = <<>>,
              !.session.search_season_data = <<>>]

\* Line 125
Efforts(R) == [R EXCEPT !.filtered_df = AddEfforts(R.filtered_df, R.selected_stats)]

\* Lines 127-136, and the charts of lines 138-294 drawn from the result
Aggregate(R) ==
    [R EXCEPT !.player_season_stats = PlayerSeasonStats(R.filtered_df),
              !.rendered = @ \cup Charts]

\* Lines 302-316: the Individual Games table
RoundTable(R) ==
    IF R.session.search_round_data # <<>> /\ ~re_compiles(R.session.search_round_data)
    THEN [R EXCEPT !.rendered = @ \cup {"search_round_data"},
                   !.exception = "re.error"]
    ELSE [R EXCEPT !.rendered = @ \cup {"search_round_data", "round_table"},
                   !.filtered_display_df =
                        SearchRows(R.filtered_df, R.session.search_round_data)]

\* Lines 318-333: the Season Totals table
SeasonTable(R) ==
    IF Raised(R) THEN R
    ELSE IF /\ R.session.search_season_data # <<>>
            /\ ~re_compiles(R.session.search_season_data)
    THEN [R EXCEPT !.rendered = @ \cup {"search_season_data"},
                   !.exception = "re.error"]
    ELSE [R EXCEPT !.rendered = @ \cup {"search_season_data", "season_table"},
                   !.filtered_season_df =
                        SearchRows(R.player_season_stats, R.session.search_season_data)]

\* Lines 120-333: the main content area
MainArea(R) ==
    IF Raised(R) THEN R
    ELSE IF NoStats(R.selected_stats) THEN Warning(R)
    ELSE SeasonTable(RoundTable(Aggregate(Efforts(R))))

\* The run of the script with cache entry `entry`, file content `csv` and
\* widget state `ss`, but for the two leaderboards, which Leaderboards adds.
Pipeline(entry, csv, ss, keepValid) ==
    MainArea(Sidebar(Load(NothingYet(ss), CachedLoad(entry, csv)), keepValid))

\* Lines 235-278: the leaderboards of a run that got to the charts.
Leaderboards(R, stable) ==
    IF "top_players_table" \in R.rendered
    THEN [R EXCEPT
            !.top_players = top_players_of(R.player_season_stats, stable),
            !.efficient_players =
                efficient_players_of(R.player_season_stats, stable)]
    ELSE R

\* A multiselect whose kept value is empty returns it whatever the options
\* are, so the release of Streamlit makes a difference only when something
\* is selected in a widget whose options depend on the data.
Releases(ss) ==
    IF /\ ss.positions_multiselect = {}
       /\ ss.teams_multiselect = {}
       /\ ss.players_multiselect = {}
    THEN {TRUE} ELSE BOOLEAN

\* What a run of the whole script can leave, over the releases of Streamlit
\* and the orders sort_values can give to rows of equal value.
Script(entry, csv, ss) ==
    {Leaderboards(P, stable) :
        P \in {Pipeline(entry, csv, ss, keepValid) : keepValid \in Releases(ss)},
        stable \in BOOLEAN}

(***************************************************************************)
(* State                                                                   *)
(***************************************************************************)
VARIABLES
    file,                \* content of round_players.csv
    cache,               \* st.cache_data entry of load_data, or NoCache
    parses,              \* pd.read_csv calls so far
    session,             \* widget state, by widget key
    interactions,        \* user interactions and file events so far
    event,               \* what the last step was
    submitted,           \* widget state the browser sent with the last run
    df, player_totals,
    all_positions, selected_positions,
    all_teams, selected_teams,
    all_players, selected_players,
    selected_stats, filtered_df, player_season_stats,
    top_players, efficient_players,
    filtered_display_df, filtered_season_df,
    rendered,            \* widgets and elements the last run put on the page
    exception            \* the uncaught exception that ended the last run

outputs ==
    <<df, player_totals, all_positions, selected_positions, all_teams,
      selected_teams, all_players, selected_players, selected_stats,
      filtered_df, player_season_stats, top_players, efficient_players,
      filtered_display_df, filtered_season_df, rendered, exception>>

vars == <<file, cache, parses, session, interactions, event, submitted, outputs>>

\* The state a run that produced R leaves behind.
Leaves(R) ==
    /\ cache' = R.cache
    /\ session' = R.session
    /\ df' = R.df
    /\ player_totals' = R.player_totals
    /\ all_positions' = R.all_positions
    /\ selected_positions' = R.selected_positions
    /\ all_teams' = R.all_teams
    /\ selected_teams' = R.selected_teams
    /\ all_players' = R.all_players
    /\ selected_players' = R.selected_players
    /\ selected_stats' = R.selected_stats
    /\ filtered_df' = R.filtered_df
    /\ player_season_stats' = R.player_season_stats
    /\ top_players' = R.top_players
    /\ efficient_players' = R.efficient_players
    /\ filtered_display_df' = R.filtered_display_df
    /\ filtered_season_df' = R.filtered_season_df
    /\ rendered' = R.rendered
    /\ exception' = R.exception

\* Streamlit runs the script with widget state ss.
RunScript(ss) ==
    /\ interactions < MaxInteractions
    /\ interactions' = interactions + 1
    /\ event' = "run"
    /\ submitted' = ss
    /\ parses' = IF cache = NoCache THEN parses + 1 ELSE parses
    /\ file' = file
    /\ \E R \in Script(cache, file, ss) : Leaves(R)

\* The first page load of a freshly started server: nothing is cached and
\* every widget is at its default.
Init ==
    /\ file \in InputFiles
    /\ parses = 1
    /\ interactions = 0
    /\ event = "run"
    /\ submitted = DefaultSession
    /\ \E R \in Script(NoCache, file, DefaultSession) :
        /\ cache = R.cache
        /\ session = R.session
        /\ df = R.df
        /\ player_totals = R.player_totals
        /\ all_positions = R.all_positions
        /\ selected_positions = R.selected_positions
        /\ all_teams = R.all_teams
        /\ selected_teams = R.selected_teams
        /\ all_players = R.all_players
        /\ selected_players = R.selected_players
        /\ selected_stats = R.selected_stats
        /\ filtered_df = R.filtered_df
        /\ player_season_stats = R.player_season_stats
        /\ top_players = R.top_players
        /\ efficient_players = R.efficient_players
        /\ filtered_display_df = R.filtered_display_df
        /\ filtered_season_df = R.filtered_season_df
        /\ rendered = R.rendered
        /\ exception = R.exception

(***************************************************************************)
(* Steps                                                                   *)
(***************************************************************************)
\* One click in a multiselect: an option is added or removed, or the clear
\* button empties the selection.
Clicks(options, value) ==
    ({(value \ {x}) \cup ({x} \ value) : x \in options} \cup {{}}) \ {value}

ChangePositions ==
    /\ "positions_multiselect" \in rendered
    /\ \E v \in Clicks(Range(all_positions), session.positions_multiselect) :
          RunScript([session EXCEPT !.positions_multiselect = v])

ChangeTeams ==
    /\ "teams_multiselect" \in rendered
    /\ \E v \in Clicks(Range(all_teams), session.teams_multiselect) :
          RunScript([session EXCEPT !.teams_multiselect = v])

ChangePlayers ==
    /\ "players_multiselect" \in rendered
    /\ \E v \in Clicks(Range(all_players), session.players_multiselect) :
          RunScript([session EXCEPT !.players_multiselect = v])

ChangeStats ==
    /\ "stats_multiselect" \in rendered
    /\ \E v \in Clicks(Range(available_stats), session.stats_multiselect) :
          RunScript([session EXCEPT !.stats_multiselect = v])

TypeSearchRound ==
    /\ "search_round_data" \in rendered
    /\ \E t \in (SearchTerms \cup {<<>>}) \ {session.search_round_data} :
          RunScript([session EXCEPT !.search_round_data = t])

TypeSearchSeason ==
    /\ "search_season_data" \in rendered
    /\ \E t \in (SearchTerms \cup {<<>>}) \ {session.search_season_data} :
          RunScript([session EXCEPT !.search_season_data = t])

\* The user reruns the page without touching a widget.
Rerun == RunScript(session)

\* round_players.csv is replaced on disk.  Streamlit watches the script, not
\* the data file: nothing runs.
WriteFile ==
    /\ interactions < MaxInteractions
    /\ interactions' = interactions + 1
    /\ event' = "write"
    /\ \E csv \in InputFiles \ {file} : file' = csv
    /\ UNCHANGED <<cache, parses, session, submitted, outputs>>

\* "Clear cache" in the app menu, or st.cache_data.clear().
ClearCache ==
    /\ interactions < MaxInteractions
    /\ cache # NoCache
    /\ interactions' = interactions + 1
    /\ event' = "clear"
    /\ cache' = NoCache
    /\ UNCHANGED <<file, parses, session, submitted, outputs>>

Next ==
    \/ ChangePositions
    \/ ChangeTeams
    \/ ChangePlayers
    \/ ChangeStats
    \/ TypeSearchRound
    \/ TypeSearchSeason
    \/ Rerun
    \/ WriteFile
    \/ ClearCache

Spec == Init /\ [][Next]_vars


(***************************************************************************)
(* Properties                                                              *)
(***************************************************************************)
Min(a, b) == IF a < b THEN a ELSE b

\* A row of filtered_df without the efforts column line 125 adds to it.
Strip(row) == [c \in DOMAIN row \ {"efforts"} |-> row[c]]

StripAll(rows) == [k \in 1..Len(rows) |-> Strip(rows[k])]

\* The last run got past the sidebar (it built filtered_df).
Filtered == "players_multiselect" \in rendered

\* The last run got to the charts (it built the season aggregate).
Charted == "top_players_table" \in rendered

\* What the claims call the selections: the values the three filter widgets
\* returned in the last run.
Admits(row) ==
    /\ session.positions_multiselect = {}
          \/ row.positionName \in session.positions_multiselect
    /\ session.teams_multiselect = {}
          \/ row.teamName \in session.teams_multiselect
    /\ session.players_multiselect = {}
          \/ row.playerName \in session.players_multiselect

\* C1: whenever a run builds the working subset, filtered_df holds exactly
\* the rows of the dataset that every non-empty selection contains (position,
\* team and player), in the dataset's order; with the three selections empty
\* it is the whole dataset, row for row.
C1_FilterSemantics ==
    Filtered =>
        /\ StripAll(filtered_df) = SelectSeq(df, Admits)
        /\ (/\ session.positions_multiselect = {}
            /\ session.teams_multiselect = {}
            /\ session.players_multiselect = {})
              => (Len(filtered_df) = Len(df) /\ StripAll(filtered_df) = df)

\* C1 witness: a position and a player are selected and the working subset
\* is a proper, non-empty part of the dataset.
C1_Witness ==
    /\ Filtered
    /\ session.positions_multiselect # {}
    /\ session.players_multiselect # {}
    /\ Len(filtered_df) > 0
    /\ Len(filtered_df) < Len(df)
    /\ \E k \in 1..Len(df) :
          /\ df[k].positionName \in session.positions_multiselect
          /\ df[k].playerName \notin session.players_multiselect


\* C2: a run that reads an empty metric selection ends in the warning and
\* produces no efforts column, no season aggregate, no chart, no leaderboard
\* and no raw-data table; a run that reads a non-empty one shows no warning.
C2_EmptyMetricsWarn ==
    "stats_multiselect" \in rendered =>
        /\ selected_stats = {} =>
              /\ "warning" \in rendered
              /\ exception = "none"
              /\ rendered \cap (Charts \cup {"round_table", "season_table"}) = {}
              /\ \A k \in 1..Len(filtered_df) : "efforts" \notin DOMAIN filtered_df[k]
              /\ Len(player_season_stats) = 0
              /\ Len(top_players) = 0
              /\ Len(efficient_players) = 0
              /\ Len(filtered_display_df) = 0
              /\ Len(filtered_season_df) = 0
        /\ selected_stats # {} => "warning" \notin rendered

\* C2 witness: the warning is on the page over a non-empty working subset.
C2_Witness ==
    /\ selected_stats = {}
    /\ "warning" \in rendered
    /\ Len(filtered_df) > 0

EffortsOf(rows, name) ==
    LET K == {k \in 1..Len(rows) : rows[k].playerName = name}
    IN ColumnSum(rows, K, "efforts")

\* C3: every player with a record in the working subset has a season
\* aggregate, and the efforts of the player's aggregate rows add up to the
\* efforts of exactly the player's records in the working subset.
C3_AggregationConsistent ==
    Charted =>
        \A k \in 1..Len(filtered_df) :
            LET name == filtered_df[k].playerName IN
            /\ \E g \in 1..Len(player_season_stats) :
                  player_season_stats[g].playerName = name
            /\ EffortsOf(player_season_stats, name) = EffortsOf(filtered_df, name)

\* C4: a record whose teamId the mapping does not know gets a NaN team name,
\* no run fails over it, and it is in the working subset whenever the team
\* selection is empty and the position and player selections admit it.
C4_UnmappedTeamTolerated ==
    \A k \in 1..Len(df) :
        df[k].teamId \notin DOMAIN team_name_mapping =>
            /\ df[k].teamName = NaN
            /\ exception # "TypeError"
            /\ Filtered
            /\ (session.teams_multiselect = {} /\ Admits(df[k]))
                  => \E j \in 1..Len(filtered_df) : Strip(filtered_df[j]) = df[k]

\* C5: a season aggregate row with totalMins = 0 has its efforts_per_min
\* flagged as missing (NaN): it is not infinite and not a number.
C5_ZeroMinutesFlagged ==
    \A g \in 1..Len(player_season_stats) :
        player_season_stats[g].totalMins = 0
            => player_season_stats[g].efforts_per_min.kind = "nan"

\* C6: the top-by-total leaderboard of n aggregate rows has min(10, n) rows
\* of the aggregate, labelled 1..min(10, n), with efforts that never
\* increase down the ranks, and no row left out has more efforts than a row
\* on it.
C6_TopByTotal ==
    Charted =>
        LET n == Len(player_season_stats)
            m == Min(TopN, n)
            on == {top_players[i] : i \in DOMAIN top_players}
            all == Range(player_season_stats)
        IN /\ DOMAIN top_players = 1..m
           /\ on \subseteq all
           /\ Cardinality(on) = m
           /\ \A i, j \in 1..m :
                 i < j => top_players[i].efforts >= top_players[j].efforts
           /\ \A out \in all \ on : \A r \in on : out.efforts <= r.efforts

\* C6 witness: more than ten aggregate rows, ten on the leaderboard, two of
\* them tied, and a row left out.
C6_Witness ==
    /\ Charted
    /\ Len(player_season_stats) > TopN
    /\ DOMAIN top_players = 1..TopN
    /\ \E i \in 1..(TopN - 1) : top_players[i].efforts = top_players[i + 1].efforts
    /\ top_players[1].efforts > top_players[TopN].efforts

\* a >= b for two efforts_per_min values that are numbers.
RatioGeq(a, b) == a.num * b.den >= b.num * a.den

\* C7: every row of the top-by-efficiency leaderboard is an aggregate row
\* with totalMins >= 80, there are at most ten, efforts_per_min never
\* increases down the ranks, and no aggregate row with totalMins < 80 is on
\* it.
C7_TopByEfficiency ==
    Charted =>
        LET m == Len(efficient_players)
            on == {efficient_players[i] : i \in DOMAIN efficient_players}
            all == Range(player_season_stats)
            qualified == {r \in all : r.totalMins >= min_mins}
        IN /\ DOMAIN efficient_players = 1..Min(TopN, Cardinality(qualified))
           /\ on \subseteq qualified
           /\ Cardinality(on) = m
           /\ \A r \in on : r.efforts_per_min.kind = "num"
           /\ \A i, j \in 1..m :
                 i < j => RatioGeq(efficient_players[i].efforts_per_min,
                                   efficient_players[j].efforts_per_min)
           /\ \A out \in qualified \ on : \A r \in on :
                 RatioGeq(r.efforts_per_min, out.efforts_per_min)

\* C7 witness: ten rows on the leaderboard, a qualified row left out, and a
\* row under 80 minutes that is not on it although its efforts_per_min beats
\* the leader's.
C7_Witness ==
    /\ Charted
    /\ Len(efficient_players) = TopN
    /\ \E r \in Range(player_season_stats) :
          /\ r.totalMins >= min_mins
          /\ \A i \in 1..TopN : efficient_players[i] # r
    /\ \E r \in Range(player_season_stats) :
          /\ r.totalMins < min_mins
          /\ r.totalMins > 0
          /\ ~RatioGeq(efficient_players[1].efforts_per_min, r.efforts_per_min)


C9_PlayerOptionsPossible ==
    Filtered =>
        /\ \A name \in Range(all_players) :
              \E k \in 1..Len(df) :
                  /\ df[k].playerName = name
                  /\ session.positions_multiselect = {}
                        \/ df[k].positionName \in session.positions_multiselect
                  /\ session.teams_multiselect = {}
                        \/ df[k].teamName \in session.teams_multiselect
        /\ selected_players \subseteq Range(all_players)
        /\ session.players_multiselect = selected_players
        /\ \A k \in 1..Len(filtered_df) :
              filtered_df[k].playerName \in Range(all_players)

\* C9 witness: the browser sent a player selection that the position and
\* team filters of the run no longer allow.
C9_Witness ==
    /\ Filtered
    /\ submitted.players_multiselect # {}
    /\ ~(submitted.players_multiselect \subseteq Range(all_players))
    /\ session.positions_multiselect \cup session.teams_multiselect # {}

\* The term occurs in the name as a substring, both case-folded.
LiteralContains(term, name) ==
    \E off \in 0..(Len(name) - Len(term)) :
        \A j \in 1..Len(term) : Fold(term[j]) = Fold(name[off + j])

\* C10: with a non-empty search term the run does not fail and the table
\* shows exactly the rows whose playerName contains the term literally,
\* both case-folded; for the per-game table and for the season table.
C10_SearchIsLiteral ==
    /\ ("search_round_data" \in rendered /\ session.search_round_data # <<>>) =>
          /\ exception = "none"
          /\ filtered_display_df =
                SelectSeq(filtered_df,
                    LAMBDA r : LiteralContains(session.search_round_data, r.playerName))
    /\ ("search_season_data" \in rendered /\ session.search_season_data # <<>>) =>
          /\ exception = "none"
          /\ filtered_season_df =
                SelectSeq(player_season_stats,
                    LAMBDA r : LiteralContains(session.search_season_data, r.playerName))

====
